---- MODULE Spec2Model ----
(***************************************************************************)
(* DynamicAtlasManager (DiligentCore): a partition tree over a W x H atlas *)
(* with two ordered indices of free leaves and a hash map of allocated     *)
(* leaves.  Allocate splits a free leaf, Free releases a leaf and merges   *)
(* sibling groups bottom-up.                                               *)
(*                                                                         *)
(* A node is identified by its path from the root (the sequence of child   *)
(* indices), so that two trees of the same shape are the same value; the   *)
(* Parent pointer of the code is the path without its last element.        *)
(*                                                                         *)
(* Uint32 values are kept below 2^31 by the bounds; a 32-bit product is    *)
(* kept as the pair <<high 16 bits, low 16 bits>> of its value mod 2^32.   *)
(* UINT_MAX is written as its residue -1 (it is only compared for          *)
(* equality).                                                              *)
(***************************************************************************)
EXTENDS Integers, Sequences, FiniteSets, TLC

VARIABLES m_Width, m_Height, nodes, m_AllocatedRegions, m_FreeRegionsByWidth,
          m_FreeRegionsByHeight, last

vars == <<m_Width, m_Height, nodes, m_AllocatedRegions, m_FreeRegionsByWidth,
          m_FreeRegionsByHeight, last>>

-----------------------------------------------------------------------------
(* Bounds of the model *)

\* Width of the small atlas.
SmallW == 6
\* Height of the small atlas.
SmallH == 6
\* Allocate is called only while the tree has at most MaxNodes nodes.
MaxNodes == 8

\* The largest width and height requested of an atlas of no area.
MaxRequest == 3

\* 2^16: an atlas of BigDim x BigDim has area 2^32.
BigDim == 2 ^ 16

\* The atlases: the small one, one of area 2^32 and one of area 2^32 + 2^16.
AtlasSizes == {<<SmallW, SmallH>>, <<BigDim, BigDim>>, <<BigDim + 1, BigDim>>}

-----------------------------------------------------------------------------
(* Region and the sentinels *)

UINT_MAX == 0 - 1

Region(x, y, width, height) == [x |-> x, y |-> y, width |-> width, height |-> height]

InvalidRegion == Region(UINT_MAX, UINT_MAX, 0, 0)

\* Region{}: the value-initialised region returned on failure.
DefaultRegion == Region(0, 0, 0, 0)

IsEmpty(R) == R.width = 0 \/ R.height = 0

\* end() of a map, as an iterator position.
EndIt == Region(0 - 2, 0 - 2, 0 - 2, 0 - 2)

\* Lexicographic order on 4-tuples of numbers.
LexLess(a, b) ==
    \E i \in 1..4 : a[i] < b[i] /\ \A j \in 1..(i - 1) : a[j] = b[j]

WidthFirstCompare(R0, R1) ==
    LexLess(<<R0.width, R0.height, R0.x, R0.y>>, <<R1.width, R1.height, R1.x, R1.y>>)

HeightFirstCompare(R0, R1) ==
    LexLess(<<R0.height, R0.width, R0.x, R0.y>>, <<R1.height, R1.width, R1.x, R1.y>>)

-----------------------------------------------------------------------------
(* Products.  MulWide is the exact product a * b of a, b < 2^18 as              *)
(* <<a * b \div 2^16, a * b % 2^16>>, computed in steps that stay below 2^31;  *)
(* Mul32 is the Uint32 product a * b mod 2^32 as <<high half, low half>>.      *)

MulWide(a, b) ==
    LET H  == 2 ^ 16
        a0 == a % H
        a1 == a \div H
        b0 == b % H
        b1 == b \div H
        p  == (a0 % 256) * b0
        q  == (a0 \div 256) * b0
        t  == p + (q % 256) * 256
    IN  <<(t \div H) + (q \div 256) + a1 * b0 + a0 * b1 + a1 * b1 * H, t % H>>

Mul32(a, b) == <<MulWide(a, b)[1] % (2 ^ 16), MulWide(a, b)[2]>>

Zero32 == <<0, 0>>

\* a < b, for two products in the <<high, low>> form.
Less32(a, b) == a[1] < b[1] \/ (a[1] = b[1] /\ a[2] < b[2])

\* a + b, for two exact products in the <<high, low>> form.
AddWide(a, b) ==
    <<a[1] + b[1] + ((a[2] + b[2]) \div (2 ^ 16)), (a[2] + b[2]) % (2 ^ 16)>>

-----------------------------------------------------------------------------
(* Maps: a function from keys to nodes *)

EmptyMap == <<>>

MapEmplace(map, k, v) ==
    IF k \in DOMAIN map
    THEN map
    ELSE [key \in (DOMAIN map) \cup {k} |-> IF key = k THEN v ELSE map[key]]

MapErase(map, k) == [key \in (DOMAIN map) \ {k} |-> map[key]]

\* The first of a set of keys in the order of the by-width map, or end().
BeginW(keys) ==
    IF keys = {} THEN EndIt
    ELSE CHOOSE k \in keys : \A o \in keys : o = k \/ WidthFirstCompare(k, o)

\* The first of a set of keys in the order of the by-height map, or end().
BeginH(keys) ==
    IF keys = {} THEN EndIt
    ELSE CHOOSE k \in keys : \A o \in keys : o = k \/ HeightFirstCompare(k, o)

-----------------------------------------------------------------------------
(* The partition tree *)

Root == <<>>

Parent(p) == SubSeq(p, 1, Len(p) - 1)

Child(p, i) == Append(p, i)

NewNode(R) == [R |-> R, IsAllocated |-> FALSE, NumChildren |-> 0]

HasChildren(T, p) == T[p].NumChildren # 0

IsPrefix(p, q) == Len(p) <= Len(q) /\ SubSeq(q, 1, Len(p)) = p

\* Node::Split: the node gets one fresh child per region.
Split(T, p, Regions) ==
    LET kids == {Child(p, i) : i \in 0..(Len(Regions) - 1)}
    IN  [q \in (DOMAIN T) \cup kids |->
            IF q = p THEN [T[p] EXCEPT !.NumChildren = Len(Regions)]
            ELSE IF q \in kids THEN NewNode(Regions[q[Len(q)] + 1])
            ELSE T[q]]

\* CanMergeChildren that does not look at the allocated flag of the children.
CanMergeChildrenIgnoresAllocated(T, p) ==
    \A i \in 0..(T[p].NumChildren - 1) : ~HasChildren(T, Child(p, i))

CanMergeChildren(T, p) ==
    \A i \in 0..(T[p].NumChildren - 1) :
        ~T[Child(p, i)].IsAllocated /\ ~HasChildren(T, Child(p, i))

\* Node::MergeChildren: Children.reset() destroys all descendants.
MergeChildren(T, p) ==
    [q \in {r \in DOMAIN T : r = p \/ ~IsPrefix(p, r)} |->
        IF q = p THEN [T[p] EXCEPT !.NumChildren = 0] ELSE T[q]]

-----------------------------------------------------------------------------
(* The manager: the tree and the three maps, as one value *)

Mgr(T, A, W, H) == [nodes |-> T, alloc |-> A, byW |-> W, byH |-> H]

Cur == Mgr(nodes, m_AllocatedRegions, m_FreeRegionsByWidth, m_FreeRegionsByHeight)

RegisterNode(m, p) ==
    LET N == m.nodes[p]
    IN  IF N.IsAllocated
        THEN [m EXCEPT !.alloc = MapEmplace(m.alloc, N.R, p)]
        ELSE [m EXCEPT !.byW = MapEmplace(m.byW, N.R, p),
                       !.byH = MapEmplace(m.byH, N.R, p)]

\* UnregisterNode erasing a free node from the by-width index only.
UnregisterNodeKeepsHeight(m, p) ==
    LET N == m.nodes[p]
    IN  IF N.IsAllocated
        THEN [m EXCEPT !.alloc = MapErase(m.alloc, N.R)]
        ELSE [m EXCEPT !.byW = MapErase(m.byW, N.R)]

UnregisterNode(m, p) ==
    LET N == m.nodes[p]
    IN  IF N.IsAllocated
        THEN [m EXCEPT !.alloc = MapErase(m.alloc, N.R)]
        ELSE [m EXCEPT !.byW = MapErase(m.byW, N.R),
                       !.byH = MapErase(m.byH, N.R)]

\* The state after construction.
Constructed(W, H) ==
    RegisterNode(Mgr([p \in {Root} |-> NewNode(Region(0, 0, W, H))],
                     EmptyMap, EmptyMap, EmptyMap), Root)

-----------------------------------------------------------------------------
(* Allocate *)

NoNode == <<0 - 1>>

\* it_w: lower_bound(Region{0, 0, Width, 0}), then ++it_w while height < Height.
ItW(m, Width, Height) ==
    LET probe == Region(0, 0, Width, 0)
        from  == {k \in DOMAIN m.byW : ~WidthFirstCompare(k, probe)}
    IN  BeginW({k \in from : ~(k.height < Height)})

\* it_h: lower_bound(Region{0, 0, 0, Height}), then ++it_h while width < Width.
ItH(m, Width, Height) ==
    LET probe == Region(0, 0, 0, Height)
        from  == {k \in DOMAIN m.byH : ~HeightFirstCompare(k, probe)}
    IN  BeginH({k \in from : ~(k.width < Width)})

\* AreaW, AreaH: the Uint32 product, or 0 at end().
AreaOf(it) == IF it # EndIt THEN Mul32(it.width, it.height) ELSE Zero32

\* SrcNode with the comparison turned into AreaW <= AreaH.
SrcNodePrefersA(m, Width, Height) ==
    LET it_w  == ItW(m, Width, Height)
        it_h  == ItH(m, Width, Height)
        AreaW == AreaOf(it_w)
        AreaH == AreaOf(it_h)
    IN  IF AreaW # Zero32 /\ AreaH # Zero32
        THEN (IF Less32(AreaH, AreaW) THEN m.byH[it_h] ELSE m.byW[it_w])
        ELSE IF AreaW # Zero32 THEN m.byW[it_w]
        ELSE IF AreaH # Zero32 THEN m.byH[it_h]
        ELSE NoNode

\* SrcNode with the branches of the comparison swapped.
SrcNodeLargerArea(m, Width, Height) ==
    LET it_w  == ItW(m, Width, Height)
        it_h  == ItH(m, Width, Height)
        AreaW == AreaOf(it_w)
        AreaH == AreaOf(it_h)
    IN  IF AreaW # Zero32 /\ AreaH # Zero32
        THEN (IF Less32(AreaW, AreaH) THEN m.byH[it_h] ELSE m.byW[it_w])
        ELSE IF AreaW # Zero32 THEN m.byW[it_w]
        ELSE IF AreaH # Zero32 THEN m.byH[it_h]
        ELSE NoNode

\* SrcNode taking begin() of the by-width index when both areas are 0.
SrcNodeElseBegin(m, Width, Height) ==
    LET it_w  == ItW(m, Width, Height)
        it_h  == ItH(m, Width, Height)
        AreaW == AreaOf(it_w)
        AreaH == AreaOf(it_h)
    IN  IF AreaW # Zero32 /\ AreaH # Zero32
        THEN (IF Less32(AreaW, AreaH) THEN m.byW[it_w] ELSE m.byH[it_h])
        ELSE IF AreaW # Zero32 THEN m.byW[it_w]
        ELSE IF AreaH # Zero32 THEN m.byH[it_h]
        ELSE IF DOMAIN m.byW # {} THEN m.byW[BeginW(DOMAIN m.byW)]
        ELSE NoNode

\* pSrcNode: the smaller area source region, or nullptr.
SrcNode(m, Width, Height) ==
    LET it_w  == ItW(m, Width, Height)
        it_h  == ItH(m, Width, Height)
        AreaW == AreaOf(it_w)
        AreaH == AreaOf(it_h)
    IN  IF AreaW # Zero32 /\ AreaH # Zero32
        THEN (IF Less32(AreaW, AreaH) THEN m.byW[it_w] ELSE m.byH[it_h])
        ELSE IF AreaW # Zero32 THEN m.byW[it_w]
        ELSE IF AreaH # Zero32 THEN m.byH[it_h]
        ELSE NoNode

\* SplitRegions with region B of the tall three-way split given the height of
\* R instead of Height.
SplitRegionsOverlap(R, Width, Height) ==
    IF R.width > Width /\ R.height > Height
    THEN IF R.width > R.height
         THEN << Region(R.x, R.y, Width, Height),
                 Region(R.x + Width, R.y, R.width - Width, R.height),
                 Region(R.x, R.y + Height, Width, R.height - Height) >>
         ELSE << Region(R.x, R.y, Width, Height),
                 Region(R.x, R.y + Height, R.width, R.height - Height),
                 Region(R.x + Width, R.y, R.width - Width, R.height) >>
    ELSE IF R.width > Width
    THEN << Region(R.x, R.y, Width, Height),
            Region(R.x + Width, R.y, R.width - Width, R.height) >>
    ELSE IF R.height > Height
    THEN << Region(R.x, R.y, Width, Height),
            Region(R.x, R.y + Height, R.width, R.height - Height) >>
    ELSE << >>

\* SplitRegions with the strip above the placed region given the whole height
\* of R in the bottom-top split.
SplitRegionsPastParent(R, Width, Height) ==
    IF R.width > Width /\ R.height > Height
    THEN IF R.width > R.height
         THEN << Region(R.x, R.y, Width, Height),
                 Region(R.x + Width, R.y, R.width - Width, R.height),
                 Region(R.x, R.y + Height, Width, R.height - Height) >>
         ELSE << Region(R.x, R.y, Width, Height),
                 Region(R.x, R.y + Height, R.width, R.height - Height),
                 Region(R.x + Width, R.y, R.width - Width, Height) >>
    ELSE IF R.width > Width
    THEN << Region(R.x, R.y, Width, Height),
            Region(R.x + Width, R.y, R.width - Width, R.height) >>
    ELSE IF R.height > Height
    THEN << Region(R.x, R.y, Width, Height),
            Region(R.x, R.y + Height, R.width, R.height) >>
    ELSE << >>

\* SplitRegions taking the wide three-way split also when R is square.
SplitRegionsWideOnTie(R, Width, Height) ==
    IF R.width > Width /\ R.height > Height
    THEN IF R.width >= R.height
         THEN << Region(R.x, R.y, Width, Height),
                 Region(R.x + Width, R.y, R.width - Width, R.height),
                 Region(R.x, R.y + Height, Width, R.height - Height) >>
         ELSE << Region(R.x, R.y, Width, Height),
                 Region(R.x, R.y + Height, R.width, R.height - Height),
                 Region(R.x + Width, R.y, R.width - Width, Height) >>
    ELSE IF R.width > Width
    THEN << Region(R.x, R.y, Width, Height),
            Region(R.x + Width, R.y, R.width - Width, R.height) >>
    ELSE IF R.height > Height
    THEN << Region(R.x, R.y, Width, Height),
            Region(R.x, R.y + Height, R.width, R.height - Height) >>
    ELSE << >>

\* The regions handed to Split, <<>> when the node is not split.
SplitRegions(R, Width, Height) ==
    IF R.width > Width /\ R.height > Height
    THEN IF R.width > R.height
         THEN << Region(R.x, R.y, Width, Height),
                 Region(R.x + Width, R.y, R.width - Width, R.height),
                 Region(R.x, R.y + Height, Width, R.height - Height) >>
         ELSE << Region(R.x, R.y, Width, Height),
                 Region(R.x, R.y + Height, R.width, R.height - Height),
                 Region(R.x + Width, R.y, R.width - Width, Height) >>
    ELSE IF R.width > Width
    THEN << Region(R.x, R.y, Width, Height),
            Region(R.x + Width, R.y, R.width - Width, R.height) >>
    ELSE IF R.height > Height
    THEN << Region(R.x, R.y, Width, Height),
            Region(R.x, R.y + Height, R.width, R.height - Height) >>
    ELSE << >>

\* ProcessChildren with RegisterNode / UnregisterNode, children i..NumChildren-1.
RECURSIVE RegisterChildren(_, _, _)
RegisterChildren(m, p, i) ==
    IF i >= m.nodes[p].NumChildren THEN m
    ELSE RegisterChildren(RegisterNode(m, Child(p, i)), p, i + 1)

RECURSIVE UnregisterChildren(_, _, _)
UnregisterChildren(m, p, i) ==
    IF i >= m.nodes[p].NumChildren THEN m
    ELSE UnregisterChildren(UnregisterNode(m, Child(p, i)), p, i + 1)

\* The part of Allocate after pSrcNode is found (pSrcNode # nullptr).
Place(m, src, Width, Height) ==
    LET m1   == UnregisterNode(m, src)
        regs == SplitRegions(m1.nodes[src].R, Width, Height)
        T2   == IF regs # << >> THEN Split(m1.nodes, src, regs) ELSE m1.nodes
    IN  IF HasChildren(T2, src)
        THEN RegisterChildren(
                 [m1 EXCEPT !.nodes = [T2 EXCEPT ![Child(src, 0)].IsAllocated = TRUE]],
                 src, 0)
        ELSE RegisterNode(
                 [m1 EXCEPT !.nodes = [T2 EXCEPT ![src].IsAllocated = TRUE]], src)

\* AllocateOp returning the region of pSrcNode also after a split.
AllocateOpReturnsSource(m, Width, Height) ==
    LET src == SrcNode(m, Width, Height)
    IN  IF src = NoNode
        THEN [m |-> m, ret |-> DefaultRegion]
        ELSE LET m2 == Place(m, src, Width, Height)
             IN  [m |-> m2, ret |-> m2.nodes[src].R]

\* AllocateOp erasing the first key of the by-height index when it fails.
AllocateOpDropsOnFailure(m, Width, Height) ==
    LET src == SrcNode(m, Width, Height)
    IN  IF src = NoNode
        THEN [m   |-> [m EXCEPT !.byH =
                          MapErase(m.byH, BeginH(DOMAIN m.byH))],
              ret |-> DefaultRegion]
        ELSE LET m2 == Place(m, src, Width, Height)
             IN  [m   |-> m2,
                  ret |-> IF HasChildren(m2.nodes, src)
                          THEN m2.nodes[Child(src, 0)].R
                          ELSE m2.nodes[src].R]

\* Allocate(Width, Height): the new manager and the returned region.
AllocateOp(m, Width, Height) ==
    LET src == SrcNode(m, Width, Height)
    IN  IF src = NoNode
        THEN [m |-> m, ret |-> DefaultRegion]
        ELSE LET m2 == Place(m, src, Width, Height)
             IN  [m   |-> m2,
                  ret |-> IF HasChildren(m2.nodes, src)
                          THEN m2.nodes[Child(src, 0)].R
                          ELSE m2.nodes[src].R]

-----------------------------------------------------------------------------
(* Free *)

\* MergeUp without RegisterNode(*N) after MergeChildren.
RECURSIVE MergeUpSkipsRegister(_, _)
MergeUpSkipsRegister(m, c) ==
    IF c = Root THEN m
    ELSE LET N == Parent(c)
         IN  IF CanMergeChildren(m.nodes, N)
             THEN LET m1 == UnregisterChildren(m, N, 0)
                      m2 == [m1 EXCEPT !.nodes = MergeChildren(m1.nodes, N)]
                  IN  MergeUpSkipsRegister(m2, N)
             ELSE m

\* MergeUp with an if in place of the while: one level is merged.
MergeUpOnce(m, c) ==
    IF c = Root THEN m
    ELSE LET N == Parent(c)
         IN  IF CanMergeChildren(m.nodes, N)
             THEN LET m1 == UnregisterChildren(m, N, 0)
                      m2 == [m1 EXCEPT !.nodes = MergeChildren(m1.nodes, N)]
                  IN  RegisterNode(m2, N)
             ELSE m

\* MergeUp without UnregisterNode of the children before MergeChildren.
RECURSIVE MergeUpKeepsChildEntries(_, _)
MergeUpKeepsChildEntries(m, c) ==
    IF c = Root THEN m
    ELSE LET N == Parent(c)
         IN  IF CanMergeChildren(m.nodes, N)
             THEN LET m2 == [m EXCEPT !.nodes = MergeChildren(m.nodes, N)]
                  IN  MergeUpKeepsChildEntries(RegisterNode(m2, N), N)
             ELSE m

\* MergeUp with the loop condition reduced to N != nullptr.
RECURSIVE MergeUpAlways(_, _)
MergeUpAlways(m, c) ==
    IF c = Root THEN m
    ELSE LET N  == Parent(c)
             m1 == UnregisterChildren(m, N, 0)
             m2 == [m1 EXCEPT !.nodes = MergeChildren(m1.nodes, N)]
         IN  MergeUpAlways(RegisterNode(m2, N), N)

\* MergeUp that never merges the children of the root.
RECURSIVE MergeUpStopsBelowRoot(_, _)
MergeUpStopsBelowRoot(m, c) ==
    IF c = Root THEN m
    ELSE LET N == Parent(c)
         IN  IF N # Root /\ CanMergeChildren(m.nodes, N)
             THEN LET m1 == UnregisterChildren(m, N, 0)
                      m2 == [m1 EXCEPT !.nodes = MergeChildren(m1.nodes, N)]
                  IN  MergeUpStopsBelowRoot(RegisterNode(m2, N), N)
             ELSE m

\* The while loop of Free, entered with N = Parent of c (nullptr for the root).
RECURSIVE MergeUp(_, _)
MergeUp(m, c) ==
    IF c = Root THEN m
    ELSE LET N == Parent(c)
         IN  IF CanMergeChildren(m.nodes, N)
             THEN LET m1 == UnregisterChildren(m, N, 0)
                      m2 == [m1 EXCEPT !.nodes = MergeChildren(m1.nodes, N)]
                  IN  MergeUp(RegisterNode(m2, N), N)
             ELSE m

\* FreeOp looking the region up by its origin alone.
FreeOpByOrigin(m, R) ==
    IF ~\E k \in DOMAIN m.alloc : k.x = R.x /\ k.y = R.y
    THEN [m |-> m, R |-> R]
    ELSE LET K  == CHOOSE k \in DOMAIN m.alloc : k.x = R.x /\ k.y = R.y
             N  == m.alloc[K]
             m1 == UnregisterNode(m, N)
             m2 == [m1 EXCEPT !.nodes = [m1.nodes EXCEPT ![N].IsAllocated = FALSE]]
         IN  [m |-> MergeUp(RegisterNode(m2, N), N), R |-> InvalidRegion]

\* FreeOp leaving the caller's region variable as it was.
FreeOpKeepsHandle(m, R) ==
    IF R \notin DOMAIN m.alloc
    THEN [m |-> m, R |-> R]
    ELSE LET N  == m.alloc[R]
             m1 == UnregisterNode(m, N)
             m2 == [m1 EXCEPT !.nodes = [m1.nodes EXCEPT ![N].IsAllocated = FALSE]]
         IN  [m |-> MergeUp(RegisterNode(m2, N), N), R |-> R]

\* FreeOp without RegisterNode(N) after the allocated flag is cleared.
FreeOpNoRegister(m, R) ==
    IF R \notin DOMAIN m.alloc
    THEN [m |-> m, R |-> R]
    ELSE LET N  == m.alloc[R]
             m1 == UnregisterNode(m, N)
             m2 == [m1 EXCEPT !.nodes = [m1.nodes EXCEPT ![N].IsAllocated = FALSE]]
         IN  [m |-> MergeUp(m2, N), R |-> InvalidRegion]

\* Free(R): the new manager and the caller's region variable after the call.
FreeOp(m, R) ==
    IF R \notin DOMAIN m.alloc
    THEN [m |-> m, R |-> R]
    ELSE LET N  == m.alloc[R]
             m1 == UnregisterNode(m, N)
             m2 == [m1 EXCEPT !.nodes = [m1.nodes EXCEPT ![N].IsAllocated = FALSE]]
         IN  [m |-> MergeUp(RegisterNode(m2, N), N), R |-> InvalidRegion]

-----------------------------------------------------------------------------
(* The state machine *)

\* The record of the last call: its arguments and results, the manager before
\* the call and, for a Free given the region that the call before it
\* allocated, the manager before that allocation (NoMgr otherwise).
Call(op, Width, Height, arg, ret, after, pre, undo) ==
    [op |-> op, Width |-> Width, Height |-> Height, arg |-> arg, ret |-> ret,
     after |-> after, pre |-> pre, undo |-> undo]

NoMgr == Mgr(<<>>, <<>>, <<>>, <<>>)

Install(m) ==
    /\ nodes' = m.nodes
    /\ m_AllocatedRegions' = m.alloc
    /\ m_FreeRegionsByWidth' = m.byW
    /\ m_FreeRegionsByHeight' = m.byH

Init ==
    /\ \E s \in AtlasSizes : m_Width = s[1] /\ m_Height = s[2]
    /\ nodes = Constructed(m_Width, m_Height).nodes
    /\ m_AllocatedRegions = Constructed(m_Width, m_Height).alloc
    /\ m_FreeRegionsByWidth = Constructed(m_Width, m_Height).byW
    /\ m_FreeRegionsByHeight = Constructed(m_Width, m_Height).byH
    /\ last = Call("new", m_Width, m_Height, DefaultRegion, DefaultRegion,
                   DefaultRegion, NoMgr, NoMgr)

\* The requests made of an atlas: a unit square, a sliver one short of the
\* atlas height, half the width at that height, two small blocks, the whole
\* atlas, and one past the atlas in either dimension.
Requests ==
    {<<1, 1>>, <<1, m_Height - 1>>, <<m_Width \div 2, m_Height - 1>>,
     <<2, 2>>, <<2, m_Height \div 2>>, <<m_Width, m_Height>>,
     <<m_Width + 1, 1>>, <<1, m_Height + 1>>}

Allocate(Width, Height) ==
    /\ Cardinality(DOMAIN nodes) <= MaxNodes
    /\ LET r == AllocateOp(Cur, Width, Height)
       IN  /\ Install(r.m)
           /\ last' = Call("Allocate", Width, Height, DefaultRegion, r.ret,
                           DefaultRegion, Cur, NoMgr)
    /\ UNCHANGED <<m_Width, m_Height>>

\* Regions a caller may wrongly hand to Free: a stale handle, a free leaf's
\* region, an allocated region with one field off by one.
BadRegions ==
    {InvalidRegion}
    \cup DOMAIN m_FreeRegionsByWidth
    \cup {[k EXCEPT !.x = @ + 1] : k \in DOMAIN m_AllocatedRegions}
    \cup {[k EXCEPT !.y = @ + 1] : k \in DOMAIN m_AllocatedRegions}
    \cup {[k EXCEPT !.width = @ + 1] : k \in DOMAIN m_AllocatedRegions}
    \cup {[k EXCEPT !.height = @ - 1] : k \in DOMAIN m_AllocatedRegions}

Free(R) ==
    /\ LET r == FreeOp(Cur, R)
       IN  /\ Install(r.m)
           /\ last' = Call("Free", 0, 0, R, DefaultRegion, r.R, Cur,
                           IF last.op = "Allocate" /\ last.ret = R /\ ~IsEmpty(R)
                           THEN last.pre ELSE NoMgr)
    /\ UNCHANGED <<m_Width, m_Height>>

FreeAllocated == \E R \in DOMAIN m_AllocatedRegions : Free(R)

FreeUnknown == \E R \in BadRegions \ DOMAIN m_AllocatedRegions : Free(R)

AllocateAny == \E q \in Requests : Allocate(q[1], q[2])

Next == AllocateAny \/ FreeAllocated \/ FreeUnknown

Spec == Init /\ [][Next]_vars

\* Allocate with a zero width or height, among Allocate and Free of allocated
\* regions.
ZeroRequests == {<<0, 1>>, <<1, 0>>, <<0, 0>>}

AllocateZero == \E q \in ZeroRequests : Allocate(q[1], q[2])

NextZero == AllocateAny \/ FreeAllocated \/ AllocateZero

SpecZero == Init /\ [][NextZero]_vars

\* Managers constructed with width 0 or height 0, under Allocate of every
\* size up to MaxRequest (zero included) and Free.
ZeroAtlasSizes ==
    {<<0, h>> : h \in 0..SmallH} \cup {<<w, 0>> : w \in 0..SmallW}

InitZeroAtlas ==
    /\ \E s \in ZeroAtlasSizes : m_Width = s[1] /\ m_Height = s[2]
    /\ nodes = Constructed(m_Width, m_Height).nodes
    /\ m_AllocatedRegions = Constructed(m_Width, m_Height).alloc
    /\ m_FreeRegionsByWidth = Constructed(m_Width, m_Height).byW
    /\ m_FreeRegionsByHeight = Constructed(m_Width, m_Height).byH
    /\ last = Call("new", m_Width, m_Height, DefaultRegion, DefaultRegion,
                   DefaultRegion, NoMgr, NoMgr)

AllocateUpToMax == \E w \in 0..MaxRequest : \E h \in 0..MaxRequest : Allocate(w, h)

NextZeroAtlas == AllocateUpToMax \/ FreeUnknown

SpecZeroAtlas == InitZeroAtlas /\ [][NextZeroAtlas]_vars

-----------------------------------------------------------------------------
(* Notions the properties are stated with *)

Overlap(R0, R1) ==
    /\ R0.x < R1.x + R1.width /\ R1.x < R0.x + R0.width
    /\ R0.y < R1.y + R1.height /\ R1.y < R0.y + R0.height

Allocated == DOMAIN m_AllocatedRegions

\* The regions of the free leaves of a tree.
FreeLeaves(T) ==
    {T[p].R : p \in {q \in DOMAIN T : T[q].NumChildren = 0 /\ ~T[q].IsAllocated}}

Fits(k, Width, Height) == k.width >= Width /\ k.height >= Height

\* The free leaf of manager m that a returned region was placed in: the one
\* with the region's origin.
UsedLeaf(m, ret) ==
    IF \E k \in FreeLeaves(m.nodes) : k.x = ret.x /\ k.y = ret.y
    THEN CHOOSE k \in FreeLeaves(m.nodes) : k.x = ret.x /\ k.y = ret.y
    ELSE EndIt

AllocateReturned == last.op = "Allocate" /\ ~IsEmpty(last.ret)

AllocateFailed == last.op = "Allocate" /\ IsEmpty(last.ret)

-----------------------------------------------------------------------------
\* C1: the regions of the allocated map are pairwise non-overlapping and each
\* lies within the atlas: x + width <= W and y + height <= H.
C1_DisjointInAtlas ==
    /\ \A R0 \in Allocated : \A R1 \in Allocated : R0 # R1 => ~Overlap(R0, R1)
    /\ \A R \in Allocated : R.x + R.width <= m_Width /\ R.y + R.height <= m_Height

\* Three regions are allocated, the last by a split.
C1_Witness ==
    /\ AllocateReturned
    /\ Cardinality(Allocated) >= 3
    /\ last.ret.x + last.ret.y > 0

\* C2: a non-empty region returned by Allocate(w, h) has width w and height h,
\* the origin of the free leaf chosen, and is a key of the allocated map that
\* was not a key before the call.
C2_ReturnedRegion ==
    AllocateReturned =>
        LET src == SrcNode(last.pre, last.Width, last.Height)
        IN  /\ last.ret.width = last.Width
            /\ last.ret.height = last.Height
            /\ src # NoNode
            /\ last.ret.x = last.pre.nodes[src].R.x
            /\ last.ret.y = last.pre.nodes[src].R.y
            /\ last.ret \in Allocated
            /\ last.ret \notin DOMAIN last.pre.alloc

\* Allocate split a leaf that is not the root and returned its first child.
C2_Witness ==
    /\ AllocateReturned
    /\ last.ret.x > 0 /\ last.ret.y > 0
    /\ HasChildren(nodes, SrcNode(last.pre, last.Width, last.Height))

\* C3 (as claimed): Allocate(w, h) returns an empty region exactly when no free
\* leaf has width >= w and height >= h.
C3_EmptyIffNoFit ==
    last.op = "Allocate" =>
        (IsEmpty(last.ret) <=>
            ~\E k \in FreeLeaves(last.pre.nodes) : Fits(k, last.Width, last.Height))

\* C4: Allocate followed at once by Free of the region it returned restores
\* the tree, the allocated map and both free indices.
C4_RoundTrip ==
    (last.op = "Free" /\ last.undo # NoMgr) => Cur = last.undo

\* Such a Free undid a split made while other regions were allocated.
C4_Witness ==
    /\ last.op = "Free" /\ last.undo # NoMgr
    /\ Cardinality(DOMAIN last.pre.nodes) > Cardinality(DOMAIN nodes)
    /\ Allocated # {}

\* The checks of the destructor.
DestructorChecksPass ==
    /\ ~nodes[Root].IsAllocated /\ ~HasChildren(nodes, Root)
    /\ Cardinality(DOMAIN m_FreeRegionsByWidth) = 1
    /\ Allocated = {}

\* C5: whenever the allocated map is empty the manager is as constructed (the
\* root a free leaf (0, 0, W, H), the one key of each free index), and the
\* destructor's checks pass exactly when no region is allocated.
C5_EmptyIsConstructed ==
    /\ Allocated = {} => Cur = Constructed(m_Width, m_Height)
    /\ DestructorChecksPass <=> Allocated = {}

\* The last region was freed from a tree of two levels of splits.
C5_Witness ==
    /\ last.op = "Free" /\ Allocated = {}
    /\ \E p \in DOMAIN last.pre.nodes : Len(p) >= 2

\* C6: Free of a region that is not a key of the allocated map changes nothing.
C6_FreeUnknownNoOp ==
    (last.op = "Free" /\ last.arg \notin DOMAIN last.pre.alloc) => Cur = last.pre

\* Free was given an allocated region with one field changed.
C6_Witness ==
    /\ last.op = "Free" /\ last.arg \notin DOMAIN last.pre.alloc
    /\ \E k \in Allocated : k # last.arg /\ k.x = last.arg.x /\ k.y = last.arg.y

\* C7: an Allocate that returns an empty region changes nothing.
C7_FailedAllocateNoOp ==
    AllocateFailed => Cur = last.pre

\* Allocate failed for a request wider than the atlas.
C7_Witness ==
    /\ AllocateFailed /\ last.Width > m_Width /\ Allocated # {}

\* C8 (as claimed): Allocate with width 0 or height 0 returns an empty region
\* and changes nothing.
C8_ZeroIsNoOp ==
    (last.op = "Allocate" /\ (last.Width = 0 \/ last.Height = 0)) =>
        (IsEmpty(last.ret) /\ Cur = last.pre)

\* Candidate A: the first key in by-width order (width, height, x, y) with
\* width >= w and height >= h; candidate B: the first key in by-height order
\* (height, width, x, y) with height >= h and width >= w.  EndIt when none.
CandidateA(m, Width, Height) ==
    BeginW({k \in DOMAIN m.byW : Fits(k, Width, Height)})

CandidateB(m, Width, Height) ==
    BeginH({k \in DOMAIN m.byH : Fits(k, Width, Height)})

\* The area of a region as the code computes it, and its exact area.
Area32(k) == Mul32(k.width, k.height)

Area(k) == MulWide(k.width, k.height)

\* C9 (as claimed): Allocate probes candidate A and candidate B; when both
\* exist the leaf used is the one of strictly smaller area, and candidate A
\* when the areas are equal.
C9_PreferA ==
    last.op = "Allocate" =>
        LET A == CandidateA(last.pre, last.Width, last.Height)
            B == CandidateB(last.pre, last.Width, last.Height)
        IN  /\ ItW(last.pre, last.Width, last.Height) = A
            /\ ItH(last.pre, last.Width, last.Height) = B
            /\ (AllocateReturned /\ A # EndIt /\ B # EndIt) =>
                   UsedLeaf(last.pre, last.ret) =
                       IF Less32(Area(B), Area(A)) THEN B ELSE A

\* C9 (amended): Allocate probes candidate A and candidate B; when both exist
\* with non-zero 32-bit area products, the leaf used is A if its area is
\* strictly smaller than B's and B otherwise, so B when the areas are equal.
C9_PreferB ==
    last.op = "Allocate" =>
        LET A == CandidateA(last.pre, last.Width, last.Height)
            B == CandidateB(last.pre, last.Width, last.Height)
        IN  /\ ItW(last.pre, last.Width, last.Height) = A
            /\ ItH(last.pre, last.Width, last.Height) = B
            /\ (A # EndIt /\ B # EndIt /\ Area32(A) # Zero32 /\ Area32(B) # Zero32) =>
                   /\ AllocateReturned
                   /\ UsedLeaf(last.pre, last.ret) =
                          IF Less32(Area32(A), Area32(B)) THEN A ELSE B

\* The candidates were two leaves of equal area.
C9_Witness ==
    /\ AllocateReturned
    /\ LET A == CandidateA(last.pre, last.Width, last.Height)
           B == CandidateB(last.pre, last.Width, last.Height)
       IN  A # B /\ Area(A) = Area(B) /\ UsedLeaf(last.pre, last.ret) = B

-----------------------------------------------------------------------------
\* The sum of the exact areas of a set of regions.
RECURSIVE SumAreas(_)
SumAreas(S) ==
    IF S = {} THEN Zero32
    ELSE LET k == CHOOSE r \in S : TRUE
         IN  AddWide(Area(k), SumAreas(S \ {k}))

\* C11: after every completed Allocate or Free, the areas of the keys of the
\* allocated map and of the keys of the by-width free index sum to W * H.
C11_AreaSum ==
    AddWide(SumAreas(Allocated), SumAreas(DOMAIN m_FreeRegionsByWidth))
        = MulWide(m_Width, m_Height)

\* A Free left two regions allocated and two leaves free.
C11_Witness ==
    /\ last.op = "Free" /\ last.arg \in DOMAIN last.pre.alloc
    /\ Cardinality(Allocated) >= 2
    /\ Cardinality(DOMAIN m_FreeRegionsByWidth) >= 2

\* C12 (as claimed): Allocate(W, H) on a freshly constructed manager returns
\* (0, 0, W, H) and leaves both free indices empty, for every atlas size.
C12_WholeAtlas ==
    (/\ last.op = "Allocate"
     /\ last.pre = Constructed(m_Width, m_Height)
     /\ last.Width = m_Width /\ last.Height = m_Height) =>
        /\ last.ret = Region(0, 0, m_Width, m_Height)
        /\ DOMAIN m_FreeRegionsByWidth = {}
        /\ DOMAIN m_FreeRegionsByHeight = {}

\* C13 (as claimed): after every call Free(R) the caller's region variable
\* holds InvalidRegion.
C13_HandleInvalidated ==
    last.op = "Free" => last.after = InvalidRegion

\* C13 (amended): after Free(R) the caller's region variable holds
\* InvalidRegion when R was a key of the allocated map, and is left as it was
\* when R was not.
C13_HandleInvalidatedIfFound ==
    last.op = "Free" =>
        last.after = IF last.arg \in DOMAIN last.pre.alloc THEN InvalidRegion
                     ELSE last.arg

\* Free was given an allocated region while others stay allocated.
C13_Witness ==
    /\ last.op = "Free" /\ last.arg \in DOMAIN last.pre.alloc
    /\ last.after = InvalidRegion /\ last.arg # InvalidRegion
    /\ Allocated # {}

\* The children that Allocate(w, h) gives a free leaf of region R: none, two
\* or three regions, the placed one first.
ExpectedChildren(R, w, h) ==
    IF R.width = w /\ R.height = h THEN << >>
    ELSE IF R.width > w /\ R.height = h
    THEN << Region(R.x, R.y, w, h), Region(R.x + w, R.y, R.width - w, R.height) >>
    ELSE IF R.width = w /\ R.height > h
    THEN << Region(R.x, R.y, w, h), Region(R.x, R.y + h, R.width, R.height - h) >>
    ELSE IF R.width > R.height
    THEN << Region(R.x, R.y, w, h),
            Region(R.x + w, R.y, R.width - w, R.height),
            Region(R.x, R.y + h, w, R.height - h) >>
    ELSE << Region(R.x, R.y, w, h),
            Region(R.x, R.y + h, R.width, R.height - h),
            Region(R.x + w, R.y, R.width - w, h) >>

\* C14: when Allocate(w, h) uses free leaf R, the leaf gets no children on an
\* exact fit, the left-right pair when only the width exceeds, the bottom-top
\* pair when only the height exceeds, and three children when both exceed
\* (right strip of full height and top strip of width w if R.width > R.height,
\* top strip of full width and right strip of height h otherwise); child 0 is
\* allocated and the other children are free leaves.
C14_SplitGeometry ==
    AllocateReturned =>
        LET src == SrcNode(last.pre, last.Width, last.Height)
            exp == ExpectedChildren(last.pre.nodes[src].R, last.Width, last.Height)
        IN  /\ nodes[src].NumChildren = Len(exp)
            /\ \A i \in 0..(Len(exp) - 1) :
                   /\ Child(src, i) \in DOMAIN nodes
                   /\ nodes[Child(src, i)].R = exp[i + 1]
                   /\ nodes[Child(src, i)].NumChildren = 0
                   /\ nodes[Child(src, i)].IsAllocated = (i = 0)
            /\ Len(exp) = 0 => nodes[src].IsAllocated

\* A leaf below the root, at least as tall as wide, was split three ways.
C14_Witness ==
    /\ AllocateReturned
    /\ LET src == SrcNode(last.pre, last.Width, last.Height)
           R   == last.pre.nodes[src].R
       IN  /\ src # Root
           /\ R.width > last.Width /\ R.height > last.Height
           /\ R.height >= R.width
           /\ nodes[src].NumChildren = 3

\* The nodes of the current tree by state.
AllocatedLeafNodes == {p \in DOMAIN nodes : nodes[p].NumChildren = 0 /\ nodes[p].IsAllocated}

FreeLeafNodes == {p \in DOMAIN nodes : nodes[p].NumChildren = 0 /\ ~nodes[p].IsAllocated}

InternalNodes == {p \in DOMAIN nodes : nodes[p].NumChildren # 0}

\* C15: each allocated leaf's region is a key of the allocated map and of
\* neither free index; each free leaf's region is a key of both free indices
\* and not of the allocated map; no internal node's region is a key of any
\* index; the by-width and by-height indices have the same key set.
C15_IndexMembership ==
    /\ \A p \in AllocatedLeafNodes :
           /\ nodes[p].R \in DOMAIN m_AllocatedRegions
           /\ nodes[p].R \notin DOMAIN m_FreeRegionsByWidth
           /\ nodes[p].R \notin DOMAIN m_FreeRegionsByHeight
    /\ \A p \in FreeLeafNodes :
           /\ nodes[p].R \notin DOMAIN m_AllocatedRegions
           /\ nodes[p].R \in DOMAIN m_FreeRegionsByWidth
           /\ nodes[p].R \in DOMAIN m_FreeRegionsByHeight
    /\ \A p \in InternalNodes :
           /\ nodes[p].R \notin DOMAIN m_AllocatedRegions
           /\ nodes[p].R \notin DOMAIN m_FreeRegionsByWidth
           /\ nodes[p].R \notin DOMAIN m_FreeRegionsByHeight
    /\ DOMAIN m_FreeRegionsByWidth = DOMAIN m_FreeRegionsByHeight

\* A Free merged a group of children while the tree keeps allocated leaves,
\* free leaves and internal nodes.
C15_Witness ==
    /\ last.op = "Free"
    /\ Cardinality(DOMAIN nodes) < Cardinality(DOMAIN last.pre.nodes)
    /\ AllocatedLeafNodes # {} /\ InternalNodes # {}
    /\ Cardinality(FreeLeafNodes) >= 2

\* Region R0 lies within region R.
Contained(R0, R) ==
    /\ R0.x >= R.x /\ R0.x + R0.width <= R.x + R.width
    /\ R0.y >= R.y /\ R0.y + R0.height <= R.y + R.height

\* The regions of the children of node p.
ChildRegions(p) == {nodes[Child(p, i)].R : i \in 0..(nodes[p].NumChildren - 1)}

\* C16: the root's region is (0, 0, W, H); every internal node has 2 or 3
\* children and is not marked allocated; every child's region is non-empty
\* and contained in its parent's; the children of a node are pairwise
\* non-overlapping and their areas sum to the parent's area.
C16_DisjointCover ==
    /\ nodes[Root].R = Region(0, 0, m_Width, m_Height)
    /\ \A p \in InternalNodes :
           /\ nodes[p].NumChildren \in {2, 3}
           /\ ~nodes[p].IsAllocated
           /\ \A i \in 0..(nodes[p].NumChildren - 1) :
                  /\ Child(p, i) \in DOMAIN nodes
                  /\ ~IsEmpty(nodes[Child(p, i)].R)
                  /\ Contained(nodes[Child(p, i)].R, nodes[p].R)
                  /\ \A j \in (i + 1)..(nodes[p].NumChildren - 1) :
                         ~Overlap(nodes[Child(p, i)].R, nodes[Child(p, j)].R)
           /\ Cardinality(ChildRegions(p)) = nodes[p].NumChildren
           /\ SumAreas(ChildRegions(p)) = Area(nodes[p].R)
    /\ \A p \in DOMAIN nodes : p # Root => Parent(p) \in InternalNodes

\* The tree has three levels of splits, one of two and one of three children.
C16_Witness ==
    /\ \E p \in InternalNodes : Len(p) >= 2
    /\ \E p \in InternalNodes : nodes[p].NumChildren = 2
    /\ \E p \in InternalNodes : nodes[p].NumChildren = 3

\* p is a proper ancestor of f.
IsAncestor(p, f) == Len(p) < Len(f) /\ IsPrefix(p, f)

\* In tree T the children of ancestor q of leaf f, the one towards f aside,
\* are all free leaves.
SiblingsFree(T, q, f) ==
    \A i \in 0..(T[q].NumChildren - 1) :
        IsPrefix(Child(q, i), f) \/
            (~T[Child(q, i)].IsAllocated /\ T[Child(q, i)].NumChildren = 0)

\* Releasing leaf f of tree T merges the children of ancestor p: at p and at
\* every ancestor between p and f all other children are free leaves.
MergesAt(T, p, f) ==
    \A q \in DOMAIN T : (IsPrefix(p, q) /\ IsAncestor(q, f)) => SiblingsFree(T, q, f)

\* C17: no internal node has all of its children being free leaves; and a
\* Free of an allocated region merges every ancestor of the freed leaf up to
\* the first one with an allocated or internal child, the root included, and
\* leaves that ancestor and those above it internal.
C17_Canonical ==
    /\ \A p \in InternalNodes : ~CanMergeChildren(nodes, p)
    /\ (last.op = "Free" /\ last.arg \in DOMAIN last.pre.alloc) =>
           LET T == last.pre.nodes
               f == last.pre.alloc[last.arg]
           IN  \A p \in DOMAIN T : IsAncestor(p, f) =>
                   IF MergesAt(T, p, f)
                   THEN \A c \in DOMAIN T : IsAncestor(p, c) => c \notin DOMAIN nodes
                   ELSE p \in InternalNodes

\* A Free merged two levels and stopped below the root, at an ancestor with an
\* allocated child.
C17_Witness ==
    /\ last.op = "Free" /\ last.arg \in DOMAIN last.pre.alloc
    /\ LET f == last.pre.alloc[last.arg]
       IN  /\ Len(f) >= 3
           /\ Parent(Parent(f)) \in FreeLeafNodes
           /\ Parent(Parent(Parent(f))) \in InternalNodes

\* The state of node p of tree T.
NodeState(T, p) ==
    IF T[p].NumChildren # 0 THEN "Internal"
    ELSE IF T[p].IsAllocated THEN "AllocatedLeaf"
    ELSE "FreeLeaf"

\* The leaves of tree T below node p, the leaf of region R aside, are free.
LeavesBelowFree(T, p, R) ==
    \A q \in DOMAIN T :
        (IsAncestor(p, q) /\ T[q].NumChildren = 0 /\ T[q].R # R) => ~T[q].IsAllocated

\* C18: across one Allocate or Free a node that exists before and after keeps
\* its state or goes FreeLeaf -> AllocatedLeaf or FreeLeaf -> Internal (in
\* Allocate), AllocatedLeaf -> FreeLeaf or Internal -> FreeLeaf (in Free, the
\* latter only when the freed leaf aside all leaves below it were free); a
\* node is created only as a child of a leaf split by the call and destroyed
\* only below a node merged by the call.
C18_NodeStateMachine ==
    last.op \in {"Allocate", "Free"} =>
        LET T == last.pre.nodes
        IN  /\ \A p \in (DOMAIN T) \cap (DOMAIN nodes) :
                   /\ nodes[p].R = T[p].R
                   /\ \/ NodeState(nodes, p) = NodeState(T, p)
                      \/ /\ last.op = "Allocate"
                         /\ NodeState(T, p) = "FreeLeaf"
                         /\ \/ /\ NodeState(nodes, p) = "AllocatedLeaf"
                               /\ T[p].R = last.ret
                            \/ /\ NodeState(nodes, p) = "Internal"
                               /\ T[p].R # last.ret
                               /\ nodes[Child(p, 0)].R = last.ret
                      \/ /\ last.op = "Free"
                         /\ NodeState(T, p) = "AllocatedLeaf"
                         /\ NodeState(nodes, p) = "FreeLeaf"
                         /\ T[p].R = last.arg
                      \/ /\ last.op = "Free"
                         /\ NodeState(T, p) = "Internal"
                         /\ NodeState(nodes, p) = "FreeLeaf"
                         /\ LeavesBelowFree(T, p, last.arg)
            /\ \A p \in (DOMAIN nodes) \ (DOMAIN T) :
                   /\ last.op = "Allocate"
                   /\ nodes[p].NumChildren = 0
                   /\ Parent(p) \in DOMAIN T
                   /\ NodeState(T, Parent(p)) = "FreeLeaf"
                   /\ NodeState(nodes, Parent(p)) = "Internal"
            /\ \A p \in (DOMAIN T) \ (DOMAIN nodes) :
                   /\ last.op = "Free"
                   /\ \E q \in DOMAIN nodes :
                          /\ IsAncestor(q, p)
                          /\ NodeState(T, q) = "Internal"
                          /\ NodeState(nodes, q) = "FreeLeaf"

\* A Free merged two levels of children while another region stays allocated.
C18_Witness ==
    /\ last.op = "Free" /\ Allocated # {}
    /\ \E p \in (DOMAIN last.pre.nodes) \cap (DOMAIN nodes) :
           /\ NodeState(last.pre.nodes, p) = "Internal"
           /\ NodeState(nodes, p) = "FreeLeaf"
           /\ \E q \in DOMAIN last.pre.nodes :
                  IsAncestor(p, q) /\ NodeState(last.pre.nodes, q) = "Internal"

\* C19: across every Allocate, and every Free given a different region, a key
\* of the allocated map stays a key of the map, owned by the same leaf, which
\* has that region; a key leaves the map only by a Free given exactly it.
C19_NoRelocation ==
    last.op \in {"Allocate", "Free"} =>
        \A k \in DOMAIN last.pre.alloc :
            \/ last.op = "Free" /\ last.arg = k
            \/ /\ k \in Allocated
               /\ m_AllocatedRegions[k] = last.pre.alloc[k]
               /\ m_AllocatedRegions[k] \in AllocatedLeafNodes
               /\ nodes[m_AllocatedRegions[k]].R = k

\* A Free merged a group of children while two other regions stay allocated.
C19_Witness ==
    /\ last.op = "Free" /\ last.arg \in DOMAIN last.pre.alloc
    /\ Cardinality(DOMAIN nodes) < Cardinality(DOMAIN last.pre.nodes)
    /\ Cardinality((DOMAIN last.pre.alloc) \cap Allocated) >= 2

\* C20: in a manager constructed with W = 0 or H = 0, every Allocate(w, h)
\* with w > 0 and h > 0 returns an empty region and changes nothing, after any
\* calls: the manager stays as constructed.
C20_ZeroAtlasNeverAllocates ==
    (m_Width = 0 \/ m_Height = 0) =>
        /\ Cur = Constructed(m_Width, m_Height)
        /\ (last.op = "Allocate" /\ last.Width > 0 /\ last.Height > 0) =>
               (IsEmpty(last.ret) /\ Cur = last.pre)

\* Allocate(w, h) with w > 0 and h > 0 was called on an atlas of width 0 that
\* is at least h high.
C20_Witness ==
    /\ m_Width = 0 /\ m_Height > 0
    /\ last.op = "Allocate" /\ last.Width > 0 /\ last.Height > 0
    /\ last.Height <= m_Height
    /\ IsEmpty(last.ret)

\* RegisterNode(N) finds no entry under the key N.R in the map or maps it
\* adds to.
FreshKey(m, p) ==
    IF m.nodes[p].IsAllocated
    THEN m.nodes[p].R \notin DOMAIN m.alloc
    ELSE m.nodes[p].R \notin DOMAIN m.byW /\ m.nodes[p].R \notin DOMAIN m.byH

\* Each RegisterNode of the children i.. of p, in turn, finds no entry.
RECURSIVE ChildrenFresh(_, _, _)
ChildrenFresh(m, p, i) ==
    \/ i >= m.nodes[p].NumChildren
    \/ /\ FreshKey(m, Child(p, i))
       /\ ChildrenFresh(RegisterNode(m, Child(p, i)), p, i + 1)

\* Each RegisterNode made by Allocate(Width, Height) on manager m finds no
\* entry.
AllocateFresh(m, Width, Height) ==
    LET src == SrcNode(m, Width, Height)
    IN  src = NoNode \/
        LET m1   == UnregisterNode(m, src)
            regs == SplitRegions(m1.nodes[src].R, Width, Height)
            T2   == IF regs # << >> THEN Split(m1.nodes, src, regs) ELSE m1.nodes
        IN  IF HasChildren(T2, src)
            THEN ChildrenFresh(
                     [m1 EXCEPT !.nodes = [T2 EXCEPT ![Child(src, 0)].IsAllocated = TRUE]],
                     src, 0)
            ELSE FreshKey([m1 EXCEPT !.nodes = [T2 EXCEPT ![src].IsAllocated = TRUE]], src)

\* Each RegisterNode made by the merge loop of Free finds no entry.
RECURSIVE MergeUpFresh(_, _)
MergeUpFresh(m, c) ==
    \/ c = Root
    \/ ~CanMergeChildren(m.nodes, Parent(c))
    \/ LET N  == Parent(c)
           m1 == UnregisterChildren(m, N, 0)
           m2 == [m1 EXCEPT !.nodes = MergeChildren(m1.nodes, N)]
       IN  FreshKey(m2, N) /\ MergeUpFresh(RegisterNode(m2, N), N)

\* Each RegisterNode made by Free(R) on manager m finds no entry.
FreeFresh(m, R) ==
    R \notin DOMAIN m.alloc \/
    LET N  == m.alloc[R]
        m1 == UnregisterNode(m, N)
        m2 == [m1 EXCEPT !.nodes = [m1.nodes EXCEPT ![N].IsAllocated = FALSE]]
    IN  FreshKey(m2, N) /\ MergeUpFresh(RegisterNode(m2, N), N)

\* C21: every entry of the allocated map and of both free indices maps its key
\* to a node of the tree that is a leaf, has the key as its region and has
\* the allocated flag of the index holding it; each leaf is the node its
\* region is mapped to; and no RegisterNode of the last call met a key
\* already present in the index it adds to.
C21_EntriesLive ==
    /\ \A k \in DOMAIN m_AllocatedRegions :
           /\ m_AllocatedRegions[k] \in AllocatedLeafNodes
           /\ nodes[m_AllocatedRegions[k]].R = k
    /\ \A k \in DOMAIN m_FreeRegionsByWidth :
           /\ m_FreeRegionsByWidth[k] \in FreeLeafNodes
           /\ nodes[m_FreeRegionsByWidth[k]].R = k
    /\ \A k \in DOMAIN m_FreeRegionsByHeight :
           /\ m_FreeRegionsByHeight[k] \in FreeLeafNodes
           /\ nodes[m_FreeRegionsByHeight[k]].R = k
    /\ \A p \in AllocatedLeafNodes :
           nodes[p].R \in DOMAIN m_AllocatedRegions /\ m_AllocatedRegions[nodes[p].R] = p
    /\ \A p \in FreeLeafNodes :
           /\ nodes[p].R \in DOMAIN m_FreeRegionsByWidth
           /\ m_FreeRegionsByWidth[nodes[p].R] = p
           /\ nodes[p].R \in DOMAIN m_FreeRegionsByHeight
           /\ m_FreeRegionsByHeight[nodes[p].R] = p
    /\ last.op = "Allocate" => AllocateFresh(last.pre, last.Width, last.Height)
    /\ last.op = "Free" => FreeFresh(last.pre, last.arg)

\* A Free destroyed the nodes of two levels of children by merging, and
\* regions stay allocated.
C21_Witness ==
    /\ last.op = "Free" /\ last.arg \in DOMAIN last.pre.alloc
    /\ Cardinality(DOMAIN last.pre.nodes) >= Cardinality(DOMAIN nodes) + 4
    /\ Allocated # {}
    /\ Cardinality(DOMAIN m_FreeRegionsByHeight) >= 2

====
